---- MODULE Spec2Model ----
(***************************************************************************)
(* Model of the fetch-orchestration core of fastapi-counter-href-10-sites. *)
(*                                                                         *)
(* The repository holds two implementations of the same pipeline:          *)
(*   "helpers"    : libs/helpers.py (get_session, fetch, search_tag,       *)
(*                  results, cleanup) driven by routers/main.py (get_tags, *)
(*                  get_tag);                                              *)
(*   "repository" : repositories/web_repository.py (AioHttpRepository)     *)
(*                  driven by services/tag_analyzer.py (HrefTagAnalyzer).  *)
(*                                                                         *)
(* Four specifications share the variables of this module:                 *)
(*   SpecFetch   : one call of fetch / get_content (the retry loop);       *)
(*   SpecSession : concurrent get_session() and cleanup() calls;           *)
(*   Spec        : one get_tags / analyze_all_urls batch, its cancellation *)
(*                 and the cleanup() of lifespan after it;                 *)
(*   SpecTag     : successive get_tag / results calls over time, with the  *)
(*                 session's HTTP cache and the @cache response cache.     *)
(***************************************************************************)
EXTENDS Integers, Sequences, FiniteSets, TLC

VARIABLES
    fr,          \* SpecFetch: the locals of the running fetch / get_content call
    attemptLog,  \* SpecFetch: outcome of every session.get attempt, in order (instrumentation)
    sleepLog,    \* SpecFetch: every asyncio.sleep of the call, in order (instrumentation)
    session,     \* the shared session variable (_session): None or a session
    closedSet,   \* the sessions whose .closed is true
    nCreated,    \* number of sessions constructed so far; they are 1..nCreated
    lock,        \* _session_lock: Free or the caller holding it
    apc,         \* SpecSession: per get_session() caller, where it stands
    got,         \* SpecSession: per caller, the session its last get_session() returned
    calledWhenAbsent, \* SpecSession: per caller, whether its call began with no open session (instrumentation)
    spc,         \* SpecSession: per cleanup() caller, where it stands
    closing,     \* SpecSession: per cleanup() caller, the session whose close() it awaits
    closeLog,    \* every call of close(): who called it on which session, in order (instrumentation)
    bimpl,       \* Spec: which implementation runs the batch
    hadSession,  \* Spec: whether a shared session was already open when the batch call began (instrumentation)
    bpc,         \* Spec: where the batch call (get_tags / analyze_all_urls) stands
    semSize,     \* Spec: the value the semaphore was constructed with
    sem,         \* Spec: the semaphore's current value (free slots)
    tpc,         \* Spec: per target, where its process_url task stands
    tf,          \* Spec: per target, the locals of its running fetch / get_content
    ret,         \* Spec: per target, what its process_url task returned or raised
    lastOutcome, \* Spec: per target, the outcome of its last attempt (instrumentation)
    doneOrder,   \* Spec: the targets in the order their tasks completed (instrumentation)
    content,     \* Spec: the list the batch call returned
    batchError,  \* Spec: the exception the batch call raised
    cache_backend, \* SpecTag: settings.cache_backend
    nUrls,       \* SpecTag: len(settings.urls)
    now,         \* SpecTag: the clock, in seconds
    httpCache,   \* SpecTag: per address, the entry of the session's HTTP cache
    respCache,   \* SpecTag: per url_id, the entry of the get_tag response cache
    lastFetchAt, \* SpecTag: per address, when the network last gave its body (instrumentation)
    call,        \* SpecTag: what the call just made did and returned (instrumentation)
    twinCache,   \* SpecTag: per address, the HTTP cache entry the other backend would
                 \* hold after the same results(url) calls (instrumentation)
    cimpl,       \* SpecCount: which count function is called
    cdata,       \* SpecCount: the argument of the call
    cpc,         \* SpecCount: where the caller stands
    cret,        \* SpecCount: the value the last call returned
    cfirst,      \* SpecCount: the value the first call returned (instrumentation)
    lpc,         \* Spec: where the application's lifespan() stands
    cacheInits,  \* Spec: number of FastAPICache.init calls so far (instrumentation)
    lcpu,        \* SpecLimit: what os.cpu_count() returns in this process (0 for None)
    lim,         \* SpecLimit: per concurrent request, its handler, its semaphore and its tasks
    allCache,    \* SpecAll: the entry @cache keeps for the response of get_tags
    allCall,     \* SpecAll: what the last get_tags request did (instrumentation)
    eq           \* SpecEquiv: a sequence of attempt outcomes and the two runs over it

fetchVars == <<fr, attemptLog, sleepLog>>
sharedSessionVars == <<session, closedSet, nCreated, lock>>
sessionVars == <<apc, got, calledWhenAbsent, spc, closing, closeLog>>
batchVars == <<bimpl, hadSession, bpc, semSize, sem, tpc, tf, ret, lastOutcome, doneOrder,
               content, batchError>>
tagVars == <<cache_backend, nUrls, now, httpCache, respCache, lastFetchAt, call,
             twinCache>>
countVars == <<cimpl, cdata, cpc, cret, cfirst>>
lifeVars == <<lpc, cacheInits>>
limitVars == <<lcpu, lim>>
allVars == <<allCache, allCall>>
equivVars == <<eq>>
vars == <<fr, attemptLog, sleepLog, session, closedSet, nCreated, lock,
          apc, got, calledWhenAbsent, spc, closing, closeLog,
          bimpl, hadSession, bpc, semSize, sem, tpc, tf, ret, lastOutcome, doneOrder,
          content, batchError,
          cache_backend, nUrls, now, httpCache, respCache, lastFetchAt, call,
          twinCache,
          cimpl, cdata, cpc, cret, cfirst, lpc, cacheInits,
          lcpu, lim, allCache, allCall, eq>>

(***************************************************************************)
(* Bounds and program constants                                            *)
(***************************************************************************)
\* largest max_retries argument explored by SpecFetch
MaxRetriesBound == 3

\* number of get_session() calls explored by SpecSession, each by its own caller
NumCallers == 2
\* number of cleanup() calls explored by SpecSession, each by its own caller
NumClosers == 2

\* number of configured targets (len(settings.urls)) explored by Spec
NumUrls == 2
\* max_retries of the fetches of a batch: the default of fetch and get_content
DefaultMaxRetries == 3

\* the two implementations
Impls == {"helpers", "repository"}

(***************************************************************************)
(* Texts.  A text is a sequence of well-formed elements                    *)
(*    <tag name="value" ...>inner</tag>                                    *)
(* with the tag name, the attributes in order (name and value as token     *)
(* sequences, and whether the value is quoted) and the inner text as a     *)
(* sequence of characters: "w" is a non-blank character, " " and "\n" are  *)
(* white space.  The empty string is the empty sequence.                   *)
(***************************************************************************)
EmptyText == <<>>
Attr(name, quoted, value) == [name |-> name, quoted |-> quoted, value |-> value]
Element(tag, attrs, inner) == [tag |-> tag, attrs |-> attrs, inner |-> inner]
\* scheme://host
Url(scheme, host) == <<scheme, "://", host>>
\* n words separated by single blanks
Words(n) == [i \in 1..(2 * n - 1) |-> IF i % 2 = 1 THEN "w" ELSE " "]
\* <a href="value">inner</a>
Link(value, inner) == Element("a", <<Attr(<<"href">>, TRUE, value)>>, inner)
Anchor(scheme, words) == Link(Url(scheme, "h"), Words(words))
Bodies == { EmptyText,
            <<Anchor("http", 2)>>,
            <<Anchor("https", 3), Anchor("ftp", 1), Anchor("http", 2)>> }

(***************************************************************************)
(* Outcomes of one underlying attempt  `async with session.get(url) as     *)
(* response: return await response.text()`.  The code distinguishes them   *)
(* by exception class only.                                                *)
(***************************************************************************)
Ok(text) == [kind |-> "ok", text |-> text]
Fail(kind) == [kind |-> kind, text |-> EmptyText]
\* the classes caught by `except (ClientError, asyncio.TimeoutError)`
Retryable == {"ClientError", "TimeoutError"}
\* any other Exception
OtherKinds == {"Exception"}
Outcomes == {Ok(b) : b \in Bodies} \cup {Fail(k) : k \in Retryable \cup OtherKinds}

NoError == [type |-> "none", cause |-> "none"]
\* ClientError(f"...: {str(e)}"): a ClientError carrying the text of its cause
ClientErrorFrom(kind) == [type |-> "ClientError", cause |-> kind]
\* an exception that leaves the function as it is
Propagated(kind) == [type |-> kind, cause |-> kind]

RECURSIVE Pow2(_)
Pow2(n) == IF n = 0 THEN 1 ELSE 2 * Pow2(n - 1)

(***************************************************************************)
(* libs/helpers.py fetch                                                   *)
(***************************************************************************)
\* locals at entry: retries = 0, backoff = 1
fetch_init(impl, m) ==
    [impl |-> impl, max_retries |-> m, pc |-> "try",
     retries |-> 0, backoff |-> 1, attempt |-> 0,
     value |-> EmptyText, error |-> NoError]

\* fetch_attempt with a catch-all handler that retries every exception
fetch_attempt_retry_all(f, o) ==
    IF o.kind = "ok"
    THEN [f EXCEPT !.pc = "returned", !.value = o.text]
    ELSE LET r == f.retries + 1 IN
         IF r > f.max_retries
         THEN [f EXCEPT !.retries = r, !.pc = "raised",
                        !.error = ClientErrorFrom(o.kind)]
         ELSE [f EXCEPT !.retries = r, !.pc = "sleep"]

\* one iteration of `while retries <= max_retries` whose attempt ends as o
fetch_attempt(f, o) ==
    IF o.kind = "ok"
    THEN [f EXCEPT !.pc = "returned", !.value = o.text]
    ELSE IF o.kind \in Retryable
    THEN LET r == f.retries + 1 IN
         IF r > f.max_retries
         THEN [f EXCEPT !.retries = r, !.pc = "raised",
                        !.error = ClientErrorFrom(o.kind)]
         ELSE [f EXCEPT !.retries = r, !.pc = "sleep"]
    ELSE [f EXCEPT !.pc = "raised", !.error = ClientErrorFrom(o.kind)]

\* seconds slept before the next attempt, without the jitter
fetch_backoff(f) == f.backoff

\* fetch_resume with a linear backoff
fetch_resume_linear(f) == [f EXCEPT !.backoff = f.backoff + 1, !.pc = "try"]

\* after `await asyncio.sleep(backoff + jitter)`: backoff *= 2, next iteration
fetch_resume(f) == [f EXCEPT !.backoff = f.backoff * 2, !.pc = "try"]

(***************************************************************************)
(* repositories/web_repository.py AioHttpRepository.get_content            *)
(***************************************************************************)
\* one iteration of `for attempt in range(max_retries + 1)` ending as o
get_content_attempt(f, o) ==
    IF o.kind = "ok"
    THEN [f EXCEPT !.pc = "returned", !.value = o.text]
    ELSE IF o.kind \in Retryable
    THEN IF f.attempt = f.max_retries
         THEN [f EXCEPT !.pc = "returned", !.value = EmptyText]
         ELSE [f EXCEPT !.pc = "sleep"]
    ELSE [f EXCEPT !.pc = "raised", !.error = Propagated(o.kind)]

\* seconds slept before the next attempt, without the jitter: 2 ** attempt
get_content_backoff(f) == Pow2(f.attempt)

\* after the sleep the for loop takes the next attempt number
get_content_resume(f) == [f EXCEPT !.attempt = f.attempt + 1, !.pc = "try"]

(***************************************************************************)
(* Both implementations behind one interface                               *)
(***************************************************************************)
Attempt(f, o) ==
    IF f.impl = "helpers" THEN fetch_attempt(f, o) ELSE get_content_attempt(f, o)
Backoff(f) ==
    IF f.impl = "helpers" THEN fetch_backoff(f) ELSE get_content_backoff(f)
Resume(f) ==
    IF f.impl = "helpers" THEN fetch_resume(f) ELSE get_content_resume(f)

\* jitter = random.random() * 0.1 seconds, in milliseconds: a value of [0, 100)
JitterMs == {0, 50, 99}

(***************************************************************************)
(* The shared session: get_session / _get_session and cleanup              *)
(***************************************************************************)
None == 0
Free == 0
Callers == 1..NumCallers
Closers == 1..NumClosers

\* a check that asks for a new session on every call
NeedNewAlways(s, closed) == TRUE

\* a cleanup check that forgets `not _session.closed`
IsOpenIgnoringClosed(s, closed) == s # None

\* `_session is None or _session.closed`
NeedNew(s, closed) == s = None \/ s \in closed

\* `_session and not _session.closed`
IsOpen(s, closed) == s # None /\ s \notin closed

SessionInit ==
    /\ session = None
    /\ closedSet = {}
    /\ nCreated = 0
    /\ lock = Free

\* The shared state an earlier request leaves behind: results() has called
\* get_session() once and nothing has closed the session since.
SessionLeftOpen ==
    /\ session = 1
    /\ closedSet = {}
    /\ nCreated = 1
    /\ lock = Free

SessionIdle ==
    /\ apc = [c \in Callers |-> "idle"]
    /\ got = [c \in Callers |-> None]
    /\ calledWhenAbsent = [c \in Callers |-> FALSE]
    /\ spc = [q \in Closers |-> "idle"]
    /\ closing = [q \in Closers |-> None]
    /\ closeLog = <<>>

FetchIdle ==
    /\ fr = fetch_init("helpers", 0)
    /\ attemptLog = <<>>
    /\ sleepLog = <<>>

(***************************************************************************)
(* The batch: get_tags (routers/main.py) and analyze_all_urls              *)
(* (services/tag_analyzer.py)                                              *)
(***************************************************************************)
Targets == 0..(NumUrls - 1)
\* settings.urls: the address configured at each position
urls == [i \in Targets |-> <<"url", i>>]

Min(a, b) == IF a < b THEN a ELSE b
Max(a, b) == IF a > b THEN a ELSE b

\* a count that is present, and Python's None in its place
Some(n) == [present |-> TRUE, n |-> n]
Absent == [present |-> FALSE, n |-> 0]

\* an argument of type Optional[str]: a string, or None
Str(text) == [present |-> TRUE, text |-> text]
NoneData == [present |-> FALSE, text |-> EmptyText]
\* `not data`: None and the empty string are falsy
Falsy(data) == ~data.present \/ data.text = EmptyText

\* re.IGNORECASE on the literals of the pattern
Lower(tok) ==
    CASE tok = "A" -> "a"
      [] tok = "HREF" -> "href"
      [] tok = "HTTP" -> "http"
      [] tok = "HTTPS" -> "https"
      [] OTHER -> tok

\* a pattern that accepts any quoted href value
AttrMatchesAnyAddress(at) ==
    /\ Len(at.name) >= 1
    /\ Lower(at.name[Len(at.name)]) = "href"
    /\ at.quoted

\* href\s*=\s*["\'](?:http|https)://[^"\']*["\']  inside the opening tag: the
\* pattern does not anchor `href` at the start of an attribute name
AttrMatches(at) ==
    /\ Len(at.name) >= 1
    /\ Lower(at.name[Len(at.name)]) = "href"
    /\ at.quoted
    /\ Len(at.value) >= 2
    /\ Lower(at.value[1]) \in {"http", "https"}
    /\ at.value[2] = "://"

\* <a\s+[^>]*href...[^>]*>(.*?)</a>  matches the element
PatternMatches(el) ==
    /\ Lower(el.tag) = "a"
    /\ \E i \in 1..Len(el.attrs) : AttrMatches(el.attrs[i])

RECURSIVE findall(_)
\* pattern_compiled.findall(data): the captured groups, in order
findall(data) ==
    IF data = <<>> THEN <<>>
    ELSE (IF PatternMatches(Head(data)) THEN <<Head(data).inner>> ELSE <<>>)
         \o findall(Tail(data))

IsSpace(ch) == ch \in {" ", "\n"}
\* len(tag.split()): the maximal runs of non-blank characters
SplitLen(tag) ==
    Cardinality({i \in 1..Len(tag) : ~IsSpace(tag[i]) /\ (i = 1 \/ IsSpace(tag[i - 1]))})

\* a count that adds one per match
RECURSIVE CountOnePerMatch(_)
CountOnePerMatch(a_tags) ==
    IF a_tags = <<>> THEN 0 ELSE 1 + CountOnePerMatch(Tail(a_tags))

RECURSIVE WordsOfMatches(_)
\* sum(len(tag.split()) for tag in a_tags if tag)
WordsOfMatches(a_tags) ==
    IF a_tags = <<>> THEN 0
    ELSE (IF Head(a_tags) # EmptyText THEN SplitLen(Head(a_tags)) ELSE 0)
         + WordsOfMatches(Tail(a_tags))

\* a search_tag without its `if not data` guard: findall(None) raises
\* TypeError, shown as a negative result
search_tag_unguarded(data) ==
    IF data.present THEN WordsOfMatches(findall(data.text)) ELSE 0 - 1

\* libs/helpers.py search_tag with the default pattern
search_tag(data) ==
    IF Falsy(data) THEN 0 ELSE WordsOfMatches(findall(data.text))

\* HrefTagAnalyzer._count_href_tags
count_href_tags(html_content) ==
    IF Falsy(html_content) THEN 0 ELSE WordsOfMatches(findall(html_content.text))

\* os.cpu_count() as the host reports it; 0 stands for None
CpuCounts == {0, 1, 4, 16}
\* a limiter sized cpu_count * 3 with neither the floor of 2 nor the cap
get_tags_semaphore_unclamped(cpu) == cpu * 3

\* asyncio.Semaphore(min(cpu_count * 3, 30)) with cpu_count = max(os.cpu_count() or 2, 2)
get_tags_semaphore(cpu) == Min(Max(IF cpu = 0 THEN 2 ELSE cpu, 2) * 3, 30)

\* what asyncio.get_event_loop().get_default_executor()._max_workers yields:
\* a worker count (0 stands for None) or an AttributeError, by the event loop
ExecutorLookups ==
    {[raises |-> TRUE, max_workers |-> 0]}
       \cup {[raises |-> FALSE, max_workers |-> w] : w \in {0, 1, 2}}
\* asyncio.Semaphore(min(len(urls), max_workers or 4))
analyze_all_urls_semaphore(w) == Min(NumUrls, IF w = 0 THEN 4 ELSE w)

\* a semaphore that never makes a task wait
semaphore_free_always(value) == TRUE

\* `async with semaphore` enters without waiting when the value is positive
semaphore_free(value) == value > 0

\* a retry loop that takes a cancellation for one more failed attempt
cancelled_caught(f) == [f EXCEPT !.pc = "sleep"]

\* a CancelledError thrown into the retry loop at its await (session.get or
\* asyncio.sleep): neither `except (ClientError, asyncio.TimeoutError)` nor
\* `except Exception` catches it, the call ends with it
cancelled(f) == [f EXCEPT !.pc = "raised", !.error = Propagated("CancelledError")]

NoFetch == [fetch_init("helpers", 0) EXCEPT !.pc = "none"]
NoItem == [id |-> 0 - 1, url |-> <<>>, result |-> Absent, error |-> NoError]
NoReturn == [raised |-> FALSE, item |-> NoItem, exc |-> NoError]
NoOutcome == [kind |-> "none", text |-> EmptyText]

Returned(item) == [raised |-> FALSE, item |-> item, exc |-> NoError]
Raised(e) == [raised |-> TRUE, item |-> NoItem, exc |-> e]

\* get_tags.process_url once results(url) has returned or raised (f: the fetch)
process_url(url_id, f) ==
    IF f.pc = "returned"
    THEN LET result == search_tag(Str(f.value)) IN
         Returned([id |-> url_id, url |-> urls[url_id],
                   result |-> IF result # 0 THEN Some(result) ELSE Absent,
                   error |-> NoError])
    ELSE Returned([id |-> url_id, url |-> urls[url_id],
                   result |-> Absent, error |-> f.error])

\* analyze_all_urls.process_url -> analyze_url -> count_tags once get_content
\* has returned or raised
analyze_url(url_id, f) ==
    IF f.pc = "returned"
    THEN Returned([id |-> url_id, url |-> urls[url_id],
                   result |-> Some(count_href_tags(Str(f.value))), error |-> NoError])
    ELSE Raised(f.error)

\* a gather that lists the results as they complete
gather_as_completed(rets, order) == [i \in 1..NumUrls |-> rets[order[i]].item]

\* asyncio.gather(*tasks): the results in the order of the tasks
gather(rets, order) == [i \in 1..NumUrls |-> rets[i - 1].item]

BatchIdle ==
    /\ bimpl = "helpers"
    /\ hadSession = FALSE
    /\ bpc = "idle"
    /\ semSize = 0
    /\ sem = 0
    /\ tpc = [t \in Targets |-> "none"]
    /\ tf = [t \in Targets |-> NoFetch]
    /\ ret = [t \in Targets |-> NoReturn]
    /\ lastOutcome = [t \in Targets |-> NoOutcome]
    /\ doneOrder = <<>>
    /\ content = <<>>
    /\ batchError = NoError

(***************************************************************************)
(* get_tag, results and the two caches in front of the network             *)
(***************************************************************************)
\* settings.cache_expire: the configured time-to-live of cached content, seconds
CACHE_TTL == 60
\* the expire argument of @cache on get_tag, seconds
GetTagExpire == 300
\* the limit of url_id in Path(..., ge=0, lt=10)
PathLt == 10
\* seconds per step of the clock explored by SpecTag
TickSeconds == 60
\* last value of the clock explored by SpecTag
MaxClock == 360

\* values of settings.cache_backend: "sqlite" and one that is not
Backends == {"sqlite", "memory"}
\* values of len(settings.urls)
UrlCounts == {1, 11}
\* values of url_id requested
RequestIds == {0 - 1, 0, 1, 10, 11}
\* the positions whose addresses reach the caches
CacheKeys == {0, 1}
\* how fetch(session, url) goes: the network gives the body, every attempt
\* fails with ClientError until the retries are spent, or the storage of the
\* session's cache fails inside session.get
FetchResults == {"ok", "ClientError", "StorageError"}

NoHttpEntry == [present |-> FALSE, fetched_at |-> 0, expires_at |-> 0]
NoRespEntry == [present |-> FALSE, stored_at |-> 0, expires_at |-> 0, body_at |-> 0,
                id |-> 0 - 1, url |-> <<>>]
NoFetchYet == [any |-> FALSE, at |-> 0]
NoCall == [op |-> "none", id |-> 0 - 1, at |-> 0, status |-> 0, handler |-> FALSE,
           fetches |-> 0, has_item |-> FALSE, item_id |-> 0 - 1, item_url |-> <<>>,
           body_at |-> 0, outcome |-> "none", error |-> NoError,
           prev |-> NoFetchYet, prev_resp |-> NoFetchYet, twin_fetches |-> 0]

\* the backend that is not b
OtherBackend(b) == IF b = "sqlite" THEN "memory" ELSE "sqlite"

\* a cache read: the entry is served unless it is absent or has expired
Fresh(e, t) == e.present /\ ~(t > e.expires_at)

\* settings.urls[i] on a list of n addresses: Python indexing, negative
\* positions count from the end, anything else is an IndexError
InRange(n, i) == 0 - n <= i /\ i < n
IndexOf(n, i) == IF i < 0 THEN n + i ELSE i

\* results(url) at time t: session.get(url) is answered by the session's
\* cache (a CachedSession, when cache_backend is "sqlite") or by the network
results(backend, e, t, outcome) ==
    IF backend = "sqlite" /\ outcome = "StorageError"
    THEN \* not a ClientError: `except Exception` of fetch turns it into one
         [ok |-> FALSE, fetches |-> 0, body_at |-> t, entry |-> e,
          error |-> ClientErrorFrom("StorageError")]
    ELSE IF backend = "sqlite" /\ Fresh(e, t)
    THEN [ok |-> TRUE, fetches |-> 0, body_at |-> e.fetched_at, entry |-> e,
          error |-> NoError]
    ELSE IF outcome = "ok"
         THEN [ok |-> TRUE, fetches |-> 1, body_at |-> t,
               entry |-> IF backend = "sqlite"
                         THEN [present |-> TRUE, fetched_at |-> t,
                               expires_at |-> t + CACHE_TTL]
                         ELSE e,
               error |-> NoError]
         ELSE [ok |-> FALSE, fetches |-> 1, body_at |-> t, entry |-> e,
               error |-> Propagated("ClientError")]

\* @cache(expire=300) of get_tags, in seconds
GetTagsExpire == 300
\* the response cache holds nothing for get_tags
NoAllEntry == [present |-> FALSE, stored_at |-> 0, expires_at |-> 0, failed |-> {}]
\* no get_tags request has been made
NoAllCall == [any |-> FALSE, at |-> 0, handler |-> FALSE,
              fetches |-> [k \in CacheKeys |-> 0], failed |-> {},
              prev_any |-> FALSE, prev_at |-> 0, prev_failed |-> {}]

\* no request is in progress
NoRequest == [kind |-> "none", sem |-> 0, new |-> 0, fetch |-> 0, done |-> 0]
\* concurrent requests explored by SpecLimit
NumRequests == 2
Requests == 1..NumRequests
\* len(settings.urls)
ConfiguredUrls == 10

\* no request is modelled
LimitIdle ==
    /\ lcpu = 0
    /\ lim = [c \in Requests |-> NoRequest]

\* no get_tags request is modelled
AllIdle ==
    /\ allCache = NoAllEntry
    /\ allCall = NoAllCall

\* no comparison of the two retry loops is modelled
NoRun == [pc |-> "none", attempts |-> 0, sleeps |-> <<>>, value |-> EmptyText]
EquivIdle == eq = [outcomes |-> <<>>, max_retries |-> 0, pc |-> "idle",
                   fetch |-> NoRun, get_content |-> NoRun]

\* no count call is modelled
CountIdle ==
    /\ cimpl = "helpers"
    /\ cdata = NoneData
    /\ cpc = "idle"
    /\ cret = 0
    /\ cfirst = 0

\* the application has started and is serving
LifeIdle ==
    /\ lpc = "serving"
    /\ cacheInits = 1

TagIdle ==
    /\ cache_backend = "sqlite"
    /\ nUrls = 1
    /\ now = 0
    /\ httpCache = [k \in CacheKeys |-> NoHttpEntry]
    /\ respCache = [k \in CacheKeys |-> NoRespEntry]
    /\ lastFetchAt = [k \in CacheKeys |-> NoFetchYet]
    /\ call = NoCall
    /\ twinCache = [k \in CacheKeys |-> NoHttpEntry]

(***************************************************************************)
(* SpecFetch: one call of fetch(session, url, m) or get_content(url, m)    *)
(***************************************************************************)
InitFetch ==
    /\ \E impl \in Impls, m \in 0..MaxRetriesBound : fr = fetch_init(impl, m)
    /\ attemptLog = <<>>
    /\ sleepLog = <<>>
    /\ SessionInit
    /\ SessionIdle
    /\ BatchIdle
    /\ TagIdle
    /\ CountIdle
    /\ LifeIdle
    /\ LimitIdle
    /\ AllIdle
    /\ EquivIdle

\* the attempt of the current iteration completes with outcome o
FetchAttempt ==
    /\ fr.pc = "try"
    /\ \E o \in Outcomes :
         /\ fr' = Attempt(fr, o)
         /\ attemptLog' = Append(attemptLog, o)
    /\ UNCHANGED <<sleepLog, sharedSessionVars, sessionVars, batchVars, tagVars, countVars, lifeVars, limitVars, allVars, equivVars>>

\* the backoff sleep of the current iteration
FetchSleep ==
    /\ fr.pc = "sleep"
    /\ \E j \in JitterMs :
         sleepLog' = Append(sleepLog,
                            [base |-> Backoff(fr), jitter |-> j,
                             ms |-> Backoff(fr) * 1000 + j,
                             after |-> Len(attemptLog)])
    /\ fr' = Resume(fr)
    /\ UNCHANGED <<attemptLog, sharedSessionVars, sessionVars, batchVars, tagVars, countVars, lifeVars, limitVars, allVars, equivVars>>

NextFetch == FetchAttempt \/ FetchSleep

SpecFetch == InitFetch /\ [][NextFetch]_vars

(***************************************************************************)
(* SpecSession: concurrent get_session() and cleanup() calls               *)
(***************************************************************************)
InitSession ==
    /\ SessionInit
    /\ SessionIdle
    /\ FetchIdle
    /\ BatchIdle
    /\ TagIdle
    /\ CountIdle
    /\ LifeIdle
    /\ LimitIdle
    /\ AllIdle
    /\ EquivIdle

\* a caller invokes get_session() and reaches `async with _session_lock`
GetSessionCall(c) ==
    /\ apc[c] = "idle"
    /\ apc' = [apc EXCEPT ![c] = "waiting"]
    /\ calledWhenAbsent' = [calledWhenAbsent EXCEPT ![c] = NeedNew(session, closedSet)]
    /\ UNCHANGED <<sharedSessionVars, got, spc, closing, closeLog, fetchVars, batchVars, tagVars, countVars, lifeVars, limitVars, allVars, equivVars>>

\* the caller enters the lock
GetSessionLock(c) ==
    /\ apc[c] = "waiting"
    /\ lock = Free
    /\ lock' = c
    /\ apc' = [apc EXCEPT ![c] = "locked"]
    /\ UNCHANGED <<session, closedSet, nCreated, got, calledWhenAbsent, spc,
                   closing, closeLog, fetchVars, batchVars, tagVars, countVars, lifeVars, limitVars, allVars, equivVars>>

\* the body under the lock: construct if needed, return _session, leave the lock
GetSessionBody(c) ==
    /\ apc[c] = "locked"
    /\ IF NeedNew(session, closedSet)
       THEN /\ nCreated' = nCreated + 1
            /\ session' = nCreated + 1
       ELSE UNCHANGED <<nCreated, session>>
    /\ got' = [got EXCEPT ![c] = session']
    /\ lock' = Free
    /\ apc' = [apc EXCEPT ![c] = "done"]
    /\ UNCHANGED <<closedSet, calledWhenAbsent, spc, closing, closeLog, fetchVars, batchVars, tagVars, countVars, lifeVars, limitVars, allVars, equivVars>>

\* cleanup() is called: `if _session and not _session.closed:` and, when it
\* holds, the call of _session.close()
CleanupCall(q) ==
    /\ spc[q] = "idle"
    /\ IF IsOpen(session, closedSet)
       THEN /\ spc' = [spc EXCEPT ![q] = "closing"]
            /\ closing' = [closing EXCEPT ![q] = session]
            /\ closeLog' = Append(closeLog, [by |-> q, s |-> session])
       ELSE /\ spc' = [spc EXCEPT ![q] = "done"]
            /\ UNCHANGED <<closing, closeLog>>
    /\ UNCHANGED <<sharedSessionVars, apc, got, calledWhenAbsent, fetchVars, batchVars, tagVars, countVars, lifeVars, limitVars, allVars, equivVars>>

\* inside close(): the session becomes closed (at some point of the await)
SessionClose(q) ==
    /\ spc[q] = "closing"
    /\ closing[q] \notin closedSet
    /\ closedSet' = closedSet \cup {closing[q]}
    /\ UNCHANGED <<session, nCreated, lock, sessionVars, fetchVars, batchVars, tagVars, countVars, lifeVars, limitVars, allVars, equivVars>>

\* close() has returned: `_session = None`
CleanupFinish(q) ==
    /\ spc[q] = "closing"
    /\ closing[q] \in closedSet
    /\ session' = None
    /\ spc' = [spc EXCEPT ![q] = "done"]
    /\ closing' = [closing EXCEPT ![q] = None]
    /\ UNCHANGED <<closedSet, nCreated, lock, apc, got, calledWhenAbsent,
                   closeLog, fetchVars, batchVars, tagVars, countVars, lifeVars, limitVars, allVars, equivVars>>

NextSession ==
    \/ \E c \in Callers : GetSessionCall(c)
    \/ \E c \in Callers : GetSessionLock(c)
    \/ \E c \in Callers : GetSessionBody(c)
    \/ \E q \in Closers : CleanupCall(q)
    \/ \E q \in Closers : SessionClose(q)
    \/ \E q \in Closers : CleanupFinish(q)

SpecSession == InitSession /\ [][NextSession]_vars

(***************************************************************************)
(* Spec: one call of get_tags ("helpers") or analyze_all_urls              *)
(* ("repository") over the configured targets                              *)
(***************************************************************************)
Init ==
    /\ bimpl \in Impls
    /\ bpc = "start"
    /\ semSize = 0
    /\ sem = 0
    /\ tpc = [t \in Targets |-> "none"]
    /\ tf = [t \in Targets |-> NoFetch]
    /\ ret = [t \in Targets |-> NoReturn]
    /\ lastOutcome = [t \in Targets |-> NoOutcome]
    /\ doneOrder = <<>>
    /\ content = <<>>
    /\ batchError = NoError
    /\ hadSession \in BOOLEAN
    /\ IF hadSession THEN SessionLeftOpen ELSE SessionInit
    /\ SessionIdle
    /\ FetchIdle
    /\ TagIdle
    /\ CountIdle
    /\ lpc = (IF hadSession THEN "serving" ELSE "startup")
    /\ cacheInits = (IF hadSession THEN 1 ELSE 0)
    /\ LimitIdle
    /\ AllIdle
    /\ EquivIdle

\* a request wrongly accepted whatever the lifespan's position
serving_always(l) == TRUE

\* the server hands requests to the application between the lifespan's
\* startup and its shutdown
serving(l) == l = "serving"

\* get_tags up to its await of gather: the semaphore and one task per target
GetTagsStart ==
    /\ bimpl = "helpers"
    /\ serving(lpc)
    /\ bpc = "start"
    /\ \E cpu \in CpuCounts :
         /\ semSize' = get_tags_semaphore(cpu)
         /\ sem' = get_tags_semaphore(cpu)
    /\ tpc' = [t \in Targets |-> "new"]
    /\ bpc' = "gather"
    /\ UNCHANGED <<bimpl, hadSession, tf, ret, lastOutcome, doneOrder, content, batchError,
                   sharedSessionVars, sessionVars, fetchVars, tagVars, countVars, lifeVars, limitVars, allVars, equivVars>>

\* analyze_all_urls up to its await of gather, or its failure to build the semaphore
AnalyzeAllUrlsStart ==
    /\ bimpl = "repository"
    /\ serving(lpc)
    /\ bpc = "start"
    /\ \E x \in ExecutorLookups :
         IF x.raises
         THEN /\ bpc' = "raised"
              /\ batchError' = Propagated("AttributeError")
              /\ UNCHANGED <<semSize, sem, tpc>>
         ELSE /\ semSize' = analyze_all_urls_semaphore(x.max_workers)
              /\ sem' = analyze_all_urls_semaphore(x.max_workers)
              /\ tpc' = [t \in Targets |-> "new"]
              /\ bpc' = "gather"
              /\ UNCHANGED batchError
    /\ UNCHANGED <<bimpl, hadSession, tf, ret, lastOutcome, doneOrder, content,
                   sharedSessionVars, sessionVars, fetchVars, tagVars, countVars, lifeVars, limitVars, allVars, equivVars>>

\* a task enters `async with semaphore`, obtains the shared session
\* (get_session / _get_session, whose body never suspends) and starts its
\* first attempt
TaskEnter(t) ==
    /\ tpc[t] = "new"
    /\ semaphore_free(sem)
    /\ sem' = sem - 1
    /\ IF NeedNew(session, closedSet)
       THEN /\ nCreated' = nCreated + 1
            /\ session' = nCreated + 1
       ELSE UNCHANGED <<nCreated, session>>
    /\ tf' = [tf EXCEPT ![t] = fetch_init(bimpl, DefaultMaxRetries)]
    /\ tpc' = [tpc EXCEPT ![t] = "fetch"]
    /\ UNCHANGED <<bimpl, hadSession, bpc, semSize, ret, lastOutcome, doneOrder, content,
                   batchError, closedSet, lock, sessionVars, fetchVars, tagVars, countVars, lifeVars, limitVars, allVars, equivVars>>

\* an attempt of a task's fetch completes; when it ends the fetch, the task
\* builds its result (or raises), leaves the semaphore and is done
TaskAttempt(t) ==
    /\ tpc[t] = "fetch"
    /\ tf[t].pc = "try"
    /\ \E o \in Outcomes :
         LET f == Attempt(tf[t], o) IN
         /\ lastOutcome' = [lastOutcome EXCEPT ![t] = o]
         /\ IF f.pc \in {"returned", "raised"}
            THEN /\ ret' = [ret EXCEPT ![t] = IF bimpl = "helpers"
                                              THEN process_url(t, f)
                                              ELSE analyze_url(t, f)]
                 /\ tf' = [tf EXCEPT ![t] = NoFetch]
                 /\ tpc' = [tpc EXCEPT ![t] = "done"]
                 /\ sem' = sem + 1
                 /\ doneOrder' = Append(doneOrder, t)
            ELSE /\ tf' = [tf EXCEPT ![t] = f]
                 /\ UNCHANGED <<ret, tpc, sem, doneOrder>>
    /\ UNCHANGED <<bimpl, hadSession, bpc, semSize, content, batchError,
                   sharedSessionVars, sessionVars, fetchVars, tagVars, countVars, lifeVars, limitVars, allVars, equivVars>>

\* a task's backoff sleep ends; the task keeps its semaphore slot meanwhile
TaskSleep(t) ==
    /\ tpc[t] = "fetch"
    /\ tf[t].pc = "sleep"
    /\ tf' = [tf EXCEPT ![t] = Resume(tf[t])]
    /\ UNCHANGED <<bimpl, hadSession, bpc, semSize, sem, tpc, ret, lastOutcome, doneOrder,
                   content, batchError, sharedSessionVars, sessionVars, fetchVars, tagVars, countVars, lifeVars, limitVars, allVars, equivVars>>

\* every task returned: gather returns their results and the call returns
GatherReturn ==
    /\ bpc = "gather"
    /\ \A t \in Targets : tpc[t] = "done" /\ ~ret[t].raised
    /\ content' = gather(ret, doneOrder)
    /\ bpc' = "returned"
    /\ UNCHANGED <<bimpl, hadSession, semSize, sem, tpc, tf, ret, lastOutcome, doneOrder,
                   batchError, sharedSessionVars, sessionVars, fetchVars, tagVars, countVars, lifeVars, limitVars, allVars, equivVars>>

\* a task raised: gather (return_exceptions=False) raises its exception to the
\* call, which propagates it; the other tasks keep running
GatherRaise ==
    /\ bpc = "gather"
    /\ \E i \in 1..Len(doneOrder) :
         /\ ret[doneOrder[i]].raised
         /\ \A j \in 1..(i - 1) : ~ret[doneOrder[j]].raised
         /\ batchError' = ret[doneOrder[i]].exc
    /\ bpc' = "raised"
    /\ UNCHANGED <<bimpl, hadSession, semSize, sem, tpc, tf, ret, lastOutcome, doneOrder,
                   content, sharedSessionVars, sessionVars, fetchVars, tagVars, countVars, lifeVars, limitVars, allVars, equivVars>>

\* the tasks a cancellation ends: those waiting for the semaphore, and those
\* in a fetch whose retry loop lets the CancelledError through
EndedByCancel ==
    {t \in Targets : \/ tpc[t] = "new"
                     \/ tpc[t] = "fetch" /\ cancelled(tf[t]).pc = "raised"}

\* the batch call is cancelled while it awaits gather: gather cancels every
\* task that is not done, a task in `async with semaphore` gives its slot
\* back on the way out, and the CancelledError leaves the call
Cancel ==
    /\ bpc = "gather"
    /\ tpc' = [t \in Targets |-> IF t \in EndedByCancel THEN "cancelled" ELSE tpc[t]]
    /\ tf' = [t \in Targets |->
                IF t \in EndedByCancel THEN NoFetch
                ELSE IF tpc[t] = "fetch" THEN cancelled(tf[t]) ELSE tf[t]]
    /\ sem' = sem + Cardinality({t \in EndedByCancel : tpc[t] = "fetch"})
    /\ bpc' = "cancelled"
    /\ batchError' = Propagated("CancelledError")
    /\ UNCHANGED <<bimpl, hadSession, semSize, ret, lastOutcome, doneOrder, content,
                   sharedSessionVars, sessionVars, fetchVars, tagVars, countVars, lifeVars, limitVars, allVars, equivVars>>

\* the application shuts down after the batch call has ended: lifespan awaits
\* cleanup()
LifespanCleanup ==
    /\ lpc = "shutdown"
    /\ \/ CleanupCall(1)
       \/ SessionClose(1)
       \/ CleanupFinish(1)

\* lifespan() up to its yield: FastAPICache.init(InMemoryBackend(), ...)
LifespanStartup ==
    /\ lpc = "startup"
    /\ cacheInits' = cacheInits + 1
    /\ lpc' = "serving"
    /\ UNCHANGED <<sharedSessionVars, sessionVars, fetchVars, batchVars, tagVars, countVars, limitVars, allVars, equivVars>>

\* the server stops serving and resumes lifespan() after its yield; no
\* request is in progress: none was made, or the batch call is over
LifespanShutdown ==
    /\ lpc = "serving"
    /\ bpc \in {"start", "returned", "raised", "cancelled"}
    /\ lpc' = "shutdown"
    /\ UNCHANGED <<cacheInits, sharedSessionVars, sessionVars, fetchVars, batchVars, tagVars,
                   countVars, limitVars, allVars, equivVars>>

\* `await cleanup()` has returned and lifespan() ends
LifespanExit ==
    /\ lpc = "shutdown"
    /\ spc[1] = "done"
    /\ lpc' = "exited"
    /\ UNCHANGED <<cacheInits, sharedSessionVars, sessionVars, fetchVars, batchVars, tagVars,
                   countVars, limitVars, allVars, equivVars>>

Next ==
    \/ LifespanStartup
    \/ LifespanShutdown
    \/ LifespanExit
    \/ GetTagsStart
    \/ AnalyzeAllUrlsStart
    \/ \E t \in Targets : TaskEnter(t)
    \/ \E t \in Targets : TaskAttempt(t)
    \/ \E t \in Targets : TaskSleep(t)
    \/ GatherReturn
    \/ GatherRaise
    \/ Cancel
    \/ LifespanCleanup

Spec == Init /\ [][Next]_vars

(***************************************************************************)
(* SpecTag: successive calls of get_tag(url_id) and of results(url) as time *)
(* passes                                                                  *)
(***************************************************************************)
InitTag ==
    /\ cache_backend \in Backends
    /\ nUrls \in UrlCounts
    /\ now = 0
    /\ httpCache = [k \in CacheKeys |-> NoHttpEntry]
    /\ respCache = [k \in CacheKeys |-> NoRespEntry]
    /\ lastFetchAt = [k \in CacheKeys |-> NoFetchYet]
    /\ call = NoCall
    /\ twinCache = [k \in CacheKeys |-> NoHttpEntry]
    /\ SessionInit
    /\ SessionIdle
    /\ FetchIdle
    /\ BatchIdle
    /\ CountIdle
    /\ LifeIdle
    /\ LimitIdle
    /\ AllIdle
    /\ EquivIdle

\* time passes between two calls
Tick ==
    /\ now + TickSeconds <= MaxClock
    /\ now' = now + TickSeconds
    /\ call' = NoCall
    /\ UNCHANGED <<cache_backend, nUrls, httpCache, respCache, lastFetchAt, twinCache,
                   sharedSessionVars, sessionVars, fetchVars, batchVars, countVars, lifeVars, limitVars, allVars, equivVars>>

\* one call of results(url) for the address at position u
ResultsCall(u, outcome) ==
    /\ u < nUrls
    /\ outcome = "StorageError" => cache_backend = "sqlite"
    /\ LET r == results(cache_backend, httpCache[u], now, outcome)
           r2 == results(OtherBackend(cache_backend), twinCache[u], now, outcome)
       IN
         /\ httpCache' = [httpCache EXCEPT ![u] = r.entry]
         /\ twinCache' = [twinCache EXCEPT ![u] = r2.entry]
         /\ lastFetchAt' = IF r.fetches > 0 /\ r.ok
                           THEN [lastFetchAt EXCEPT ![u] = [any |-> TRUE, at |-> now]]
                           ELSE lastFetchAt
         /\ call' = [op |-> "results", id |-> u, at |-> now,
                     status |-> IF r.ok THEN 200 ELSE 0, handler |-> TRUE,
                     fetches |-> r.fetches, has_item |-> FALSE, item_id |-> 0 - 1,
                     item_url |-> <<>>, body_at |-> r.body_at,
                     outcome |-> IF r.ok /\ r.fetches = 0 THEN "none" ELSE outcome,
                     error |-> r.error,
                     prev |-> lastFetchAt[u], prev_resp |-> NoFetchYet,
                     twin_fetches |-> r2.fetches]
    /\ UNCHANGED <<cache_backend, nUrls, now, respCache,
                   sharedSessionVars, sessionVars, fetchVars, batchVars, countVars, lifeVars, limitVars, allVars, equivVars>>

\* one request GET /v1/tags/{url_id}
GetTagCall(id, outcome) ==
    /\ outcome = "StorageError" => cache_backend = "sqlite"
    /\ IF ~(id >= 0 /\ id < PathLt)
       THEN \* Path(..., ge=0, lt=10) rejects the request
            /\ call' = [NoCall EXCEPT !.op = "get_tag", !.id = id, !.at = now,
                                      !.status = 422]
            /\ UNCHANGED <<httpCache, respCache, lastFetchAt, twinCache>>
       ELSE IF Fresh(respCache[id], now)
       THEN \* @cache answers, the handler does not run
            /\ call' = [NoCall EXCEPT !.op = "get_tag", !.id = id, !.at = now,
                                      !.status = 200, !.has_item = TRUE,
                                      !.item_id = respCache[id].id,
                                      !.item_url = respCache[id].url,
                                      !.body_at = respCache[id].body_at,
                                      !.prev = lastFetchAt[id],
                                      !.prev_resp = [any |-> TRUE,
                                                     at |-> respCache[id].stored_at]]
            /\ UNCHANGED <<httpCache, respCache, lastFetchAt, twinCache>>
       ELSE IF ~InRange(nUrls, id)
       THEN \* settings.urls[url_id] raises IndexError
            /\ call' = [NoCall EXCEPT !.op = "get_tag", !.id = id, !.at = now,
                                      !.status = 400, !.handler = TRUE]
            /\ UNCHANGED <<httpCache, respCache, lastFetchAt, twinCache>>
       ELSE LET u == IndexOf(nUrls, id)
                r == results(cache_backend, httpCache[u], now, outcome)
                r2 == results(OtherBackend(cache_backend), twinCache[u], now, outcome)
            IN  /\ httpCache' = [httpCache EXCEPT ![u] = r.entry]
                /\ twinCache' = [twinCache EXCEPT ![u] = r2.entry]
                /\ lastFetchAt' = IF r.fetches > 0 /\ r.ok
                                  THEN [lastFetchAt EXCEPT ![u] = [any |-> TRUE, at |-> now]]
                                  ELSE lastFetchAt
                /\ IF r.ok
                   THEN /\ respCache' = [respCache EXCEPT ![id] =
                                           [present |-> TRUE, stored_at |-> now,
                                            expires_at |-> now + GetTagExpire,
                                            body_at |-> r.body_at,
                                            id |-> id, url |-> <<"url", u>>]]
                        /\ call' = [NoCall EXCEPT !.op = "get_tag", !.id = id,
                                                  !.at = now, !.status = 200,
                                                  !.handler = TRUE,
                                                  !.fetches = r.fetches,
                                                  !.has_item = TRUE,
                                                  !.item_id = id,
                                                  !.item_url = <<"url", u>>,
                                                  !.body_at = r.body_at,
                                                  !.outcome = IF r.fetches > 0
                                                              THEN "ok" ELSE "none",
                                                  !.twin_fetches = r2.fetches,
                                                  !.prev = lastFetchAt[u],
                                                  !.prev_resp =
                                                     [any |-> respCache[id].present,
                                                      at |-> respCache[id].stored_at]]
                   ELSE \* the ClientError fetch raised passes `except IndexError`
                        /\ call' = [NoCall EXCEPT !.op = "get_tag", !.id = id,
                                                  !.at = now, !.status = 500,
                                                  !.handler = TRUE,
                                                  !.fetches = r.fetches,
                                                  !.outcome = outcome,
                                                  !.error = r.error,
                                                  !.twin_fetches = r2.fetches,
                                                  !.prev = lastFetchAt[u],
                                                  !.prev_resp =
                                                     [any |-> respCache[id].present,
                                                      at |-> respCache[id].stored_at]]
                        /\ UNCHANGED respCache
    /\ UNCHANGED <<cache_backend, nUrls, now,
                   sharedSessionVars, sessionVars, fetchVars, batchVars, countVars, lifeVars, limitVars, allVars, equivVars>>

NextTag ==
    \/ Tick
    \/ \E u \in CacheKeys, outcome \in FetchResults : ResultsCall(u, outcome)
    \/ \E id \in RequestIds, outcome \in FetchResults : GetTagCall(id, outcome)

SpecTag == InitTag /\ [][NextTag]_vars

(***************************************************************************)
(* SpecEquiv: helpers.fetch and AioHttpRepository.get_content run over the *)
(* same sequence of attempt outcomes with the same max_retries.            *)
(***************************************************************************)
\* what an attempt can end as: a body, or an exception of each class
EquivOutcomes == {Ok(<<Anchor("http", 2)>>)} \cup {Fail(k) : k \in Retryable \cup OtherKinds}
\* the outcomes of the attempts, in order: one more than the largest max_retries
OutcomeSeqs == [1..(MaxRetriesBound + 1) -> EquivOutcomes]

RECURSIVE RunFrom(_, _, _, _)
\* the retry loop from frame f on: each attempt takes the next outcome, each
\* sleep is recorded without its jitter
RunFrom(f, rest, n, sleeps) ==
    IF f.pc = "try" /\ rest # <<>>
    THEN RunFrom(Attempt(f, Head(rest)), Tail(rest), n + 1, sleeps)
    ELSE IF f.pc = "sleep"
    THEN RunFrom(Resume(f), rest, n, Append(sleeps, Backoff(f)))
    ELSE [pc |-> f.pc, attempts |-> n, sleeps |-> sleeps, value |-> f.value]

\* fetch(session, url, m) / get_content(url, m) over the outcomes
Run(impl, outcomes, m) == RunFrom(fetch_init(impl, m), outcomes, 0, <<>>)

InitEquiv ==
    /\ \E outcomes \in OutcomeSeqs, m \in 0..MaxRetriesBound :
          eq = [outcomes |-> outcomes, max_retries |-> m, pc |-> "ready",
                fetch |-> NoRun, get_content |-> NoRun]
    /\ SessionInit
    /\ SessionIdle
    /\ FetchIdle
    /\ BatchIdle
    /\ TagIdle
    /\ CountIdle
    /\ LifeIdle
    /\ LimitIdle
    /\ AllIdle

\* both calls are made and run to their end
EquivRun ==
    /\ eq.pc = "ready"
    /\ eq' = [eq EXCEPT !.pc = "ran",
                        !.fetch = Run("helpers", eq.outcomes, eq.max_retries),
                        !.get_content = Run("repository", eq.outcomes, eq.max_retries)]
    /\ UNCHANGED <<sharedSessionVars, sessionVars, fetchVars, batchVars, tagVars,
                   countVars, lifeVars, limitVars, allVars>>

NextEquiv == EquivRun

SpecEquiv == InitEquiv /\ [][NextEquiv]_vars

(***************************************************************************)
(* SpecAll: GET /v1/tags requests over a clock.  The handler get_tags sits *)
(* behind @cache(expire=300); each of its tasks calls results(url) and     *)
(* process_url turns a raised exception into an entry with an error.       *)
(***************************************************************************)
InitAll ==
    /\ cache_backend \in Backends
    /\ nUrls = 1
    /\ now = 0
    /\ httpCache = [k \in CacheKeys |-> NoHttpEntry]
    /\ respCache = [k \in CacheKeys |-> NoRespEntry]
    /\ lastFetchAt = [k \in CacheKeys |-> NoFetchYet]
    /\ call = NoCall
    /\ twinCache = [k \in CacheKeys |-> NoHttpEntry]
    /\ allCache = NoAllEntry
    /\ allCall = NoAllCall
    /\ SessionInit
    /\ SessionIdle
    /\ FetchIdle
    /\ BatchIdle
    /\ CountIdle
    /\ LifeIdle
    /\ LimitIdle
    /\ EquivIdle

\* time passes
TickAll ==
    /\ now + TickSeconds <= MaxClock
    /\ now' = now + TickSeconds
    /\ UNCHANGED <<cache_backend, nUrls, httpCache, respCache, lastFetchAt, call,
                   twinCache, allVars, sharedSessionVars, sessionVars, fetchVars,
                   batchVars, countVars, lifeVars, limitVars, equivVars>>

\* the outcome the network would give each target's fetch, if one is made
TargetOutcomes == [CacheKeys -> {"ok", "ClientError"}]

\* one GET /v1/tags request
GetTagsCall(outs) ==
    /\ IF Fresh(allCache, now)
       THEN \* @cache answers with the stored response, the handler does not run
            /\ allCall' = [any |-> TRUE, at |-> now, handler |-> FALSE,
                           fetches |-> [k \in CacheKeys |-> 0],
                           failed |-> allCache.failed,
                           prev_any |-> allCall.any, prev_at |-> allCall.at,
                           prev_failed |-> allCall.failed]
            /\ UNCHANGED <<httpCache, allCache>>
       ELSE LET r == [k \in CacheKeys |->
                        results(cache_backend, httpCache[k], now, outs[k])]
                failed == {k \in CacheKeys : ~r[k].ok}
            IN  /\ httpCache' = [k \in CacheKeys |-> r[k].entry]
                \* the handler returns a JSONResponse whatever failed; @cache
                \* stores it
                /\ allCache' = [present |-> TRUE, stored_at |-> now,
                                expires_at |-> now + GetTagsExpire,
                                failed |-> failed]
                /\ allCall' = [any |-> TRUE, at |-> now, handler |-> TRUE,
                               fetches |-> [k \in CacheKeys |-> r[k].fetches],
                               failed |-> failed,
                               prev_any |-> allCall.any, prev_at |-> allCall.at,
                               prev_failed |-> allCall.failed]
    /\ UNCHANGED <<cache_backend, nUrls, now, respCache, lastFetchAt, call, twinCache,
                   sharedSessionVars, sessionVars, fetchVars, batchVars, countVars,
                   lifeVars, limitVars, equivVars>>

NextAll ==
    \/ TickAll
    \/ \E outs \in TargetOutcomes : GetTagsCall(outs)

SpecAll == InitAll /\ [][NextAll]_vars

(***************************************************************************)
(* SpecLimit: requests served concurrently by one process.  A get_tags     *)
(* request builds its own semaphore and starts one task per configured     *)
(* address; a get_tag request awaits results(url) directly.  The tasks of  *)
(* a request are counted, not told apart: new (waiting for a slot), fetch  *)
(* (inside `async with semaphore`, or inside results for get_tag), done.   *)
(***************************************************************************)
InitLimit ==
    /\ lcpu \in CpuCounts
    /\ lim = [c \in Requests |-> NoRequest]
    /\ SessionInit
    /\ SessionIdle
    /\ FetchIdle
    /\ BatchIdle
    /\ TagIdle
    /\ CountIdle
    /\ LifeIdle
    /\ AllIdle
    /\ EquivIdle

\* get_tags up to gather: `semaphore = asyncio.Semaphore(...)` is a local of
\* the call
LimitGetTagsStart(c) ==
    /\ lim[c].kind = "none"
    /\ lim' = [lim EXCEPT ![c] = [kind |-> "get_tags",
                                  sem |-> get_tags_semaphore(lcpu),
                                  new |-> ConfiguredUrls, fetch |-> 0, done |-> 0]]
    /\ UNCHANGED <<lcpu, sharedSessionVars, sessionVars, fetchVars, batchVars, tagVars,
                   countVars, lifeVars, allVars, equivVars>>

\* get_tag up to `await results(url)`: no semaphore is involved
LimitGetTagStart(c) ==
    /\ lim[c].kind = "none"
    /\ lim' = [lim EXCEPT ![c] = [kind |-> "get_tag", sem |-> 0,
                                  new |-> 0, fetch |-> 1, done |-> 0]]
    /\ UNCHANGED <<lcpu, sharedSessionVars, sessionVars, fetchVars, batchVars, tagVars,
                   countVars, lifeVars, allVars, equivVars>>

\* a task of a get_tags request enters `async with semaphore`
LimitTaskEnter(c) ==
    /\ lim[c].kind = "get_tags"
    /\ lim[c].new > 0
    /\ semaphore_free(lim[c].sem)
    /\ lim' = [lim EXCEPT ![c].sem = @ - 1, ![c].new = @ - 1, ![c].fetch = @ + 1]
    /\ UNCHANGED <<lcpu, sharedSessionVars, sessionVars, fetchVars, batchVars, tagVars,
                   countVars, lifeVars, allVars, equivVars>>

\* results(url) ends (returns or raises); a task leaves its semaphore
LimitFetchEnd(c) ==
    /\ lim[c].fetch > 0
    /\ lim' = [lim EXCEPT ![c].fetch = @ - 1, ![c].done = @ + 1,
                          ![c].sem = IF lim[c].kind = "get_tags" THEN @ + 1 ELSE @]
    /\ UNCHANGED <<lcpu, sharedSessionVars, sessionVars, fetchVars, batchVars, tagVars,
                   countVars, lifeVars, allVars, equivVars>>

\* the request has been answered
LimitRequestEnd(c) ==
    /\ lim[c].kind # "none"
    /\ lim[c].new = 0
    /\ lim[c].fetch = 0
    /\ lim' = [lim EXCEPT ![c] = NoRequest]
    /\ UNCHANGED <<lcpu, sharedSessionVars, sessionVars, fetchVars, batchVars, tagVars,
                   countVars, lifeVars, allVars, equivVars>>

NextLimit ==
    \/ \E c \in Requests : LimitGetTagsStart(c)
    \/ \E c \in Requests : LimitGetTagStart(c)
    \/ \E c \in Requests : LimitTaskEnter(c)
    \/ \E c \in Requests : LimitFetchEnd(c)
    \/ \E c \in Requests : LimitRequestEnd(c)

SpecLimit == InitLimit /\ [][NextLimit]_vars

(***************************************************************************)
(* SpecCount: one caller applies search_tag / _count_href_tags to an       *)
(* argument, then applies it to the same argument again.                   *)
(***************************************************************************)
\* longest text, in elements
MaxElems == 2

Elements ==
    { Link(Url("http", "x"), Words(2)),
      Link(Url("http", "x"), Words(3)),
      Link(Url("http", "y"), Words(2)),
      Link(<<"x">>, Words(2)),
      Link(<<"x">>, Words(3)),
      Link(<<"y">>, Words(2)),
      Link(<<"/", "relative", "/", "path">>, Words(2)),
      Link(Url("ftp", "h"), Words(1)),
      Link(Url("https", "h"), EmptyText),
      Link(Url("https", "h"), <<" ", "\n">>),
      Element("A", <<Attr(<<"HREF">>, TRUE, Url("HTTP", "h"))>>, <<"w", "\n", "w">>),
      Element("a", <<Attr(<<"class">>, TRUE, <<"c">>),
                     Attr(<<"href">>, TRUE, Url("https", "h"))>>, <<"w", "w", " ", "w">>),
      Element("a", <<Attr(<<"href">>, FALSE, Url("http", "h"))>>, Words(1)),
      Element("a", <<Attr(<<"data-", "href">>, TRUE, Url("http", "h")),
                     Attr(<<"href">>, TRUE, <<"/", "relative", "/", "path">>)>>, Words(2)),
      Element("p", <<>>, Words(2)) }

Texts == UNION {[1..n -> Elements] : n \in 0..MaxElems}
CountInputs == {NoneData} \cup {Str(t) : t \in Texts}

\* the count function of the implementation
count(impl, data) ==
    IF impl = "helpers" THEN search_tag(data) ELSE count_href_tags(data)

InitCount ==
    /\ cimpl \in Impls
    /\ cdata \in CountInputs
    /\ cpc = "ready"
    /\ cret = 0
    /\ cfirst = 0
    /\ SessionInit \/ SessionLeftOpen
    /\ SessionIdle
    /\ FetchIdle
    /\ BatchIdle
    /\ TagIdle
    /\ LifeIdle
    /\ LimitIdle
    /\ AllIdle
    /\ EquivIdle

\* the call: nothing but the return value is written
CountCall ==
    /\ cpc = "ready"
    /\ cret' = count(cimpl, cdata)
    /\ cfirst' = count(cimpl, cdata)
    /\ cpc' = "returned"
    /\ UNCHANGED <<cimpl, cdata, sharedSessionVars, sessionVars, fetchVars, batchVars,
                   tagVars, lifeVars, limitVars, allVars, equivVars>>

\* a second call with an equal argument
CountAgain ==
    /\ cpc = "returned"
    /\ cret' = count(cimpl, cdata)
    /\ cpc' = "repeated"
    /\ UNCHANGED <<cimpl, cdata, cfirst, sharedSessionVars, sessionVars, fetchVars,
                   batchVars, tagVars, lifeVars, limitVars, allVars, equivVars>>

NextCount ==
    \/ CountCall
    \/ CountAgain

SpecCount == InitCount /\ [][NextCount]_vars

(***************************************************************************)
(* Properties of the retry loop (checked under SpecFetch)                  *)
(***************************************************************************)
Calls == Len(attemptLog)
Ended == fr.pc \in {"returned", "raised"}
AllTransient(log) == \A i \in 1..Len(log) : log[i].kind \in Retryable
\* the first Len(log)-1 attempts failed transiently and the last one succeeded
FailedThenOk(log) ==
    /\ Len(log) >= 1
    /\ log[Len(log)].kind = "ok"
    /\ \A i \in 1..(Len(log) - 1) : log[i].kind \in Retryable

\* C5: with max_retries = m, a fetch whose attempts all fail transiently ends
\* in an error after exactly m+1 attempts (never earlier, never later), and a
\* fetch whose first j <= m attempts fail transiently and whose attempt j+1
\* succeeds returns the text of that attempt after exactly j+1 attempts.
C5_RetryCounts ==
    /\ (AllTransient(attemptLog) /\ (Ended \/ Calls >= fr.max_retries + 1))
          => (fr.pc = "raised" /\ Calls = fr.max_retries + 1)
    /\ FailedThenOk(attemptLog)
          => /\ Calls <= fr.max_retries + 1
             /\ fr.pc = "returned"
             /\ fr.value = attemptLog[Calls].text

\* C6: when every attempt of a fetch failed transiently, the fetch returns no
\* text: it fails with a fetch error (ClientError) that wraps the cause of the
\* last failed attempt; in both implementations.
C6_ExhaustedFetchRaises ==
    (Ended /\ Calls >= 1 /\ AllTransient(attemptLog))
       => /\ fr.pc = "raised"
          /\ fr.error.type = "ClientError"
          /\ fr.error.cause = attemptLog[Calls].kind

C8_BackoffDoubles ==
    /\ \A k \in 1..Len(sleepLog) :
          /\ sleepLog[k].base = Pow2(k - 1)
          /\ (k > 1 => sleepLog[k].base = 2 * sleepLog[k - 1].base)
          /\ sleepLog[k].ms - sleepLog[k].base * 1000 \in 0..99
          /\ sleepLog[k].after = k
          /\ attemptLog[k].kind \in Retryable
    /\ Len(sleepLog) <= fr.max_retries
    /\ (fr.pc = "try" => Len(sleepLog) = Calls)
    /\ (fr.pc = "sleep" => Len(sleepLog) = Calls - 1)
    /\ (Ended => Len(sleepLog) = Calls - 1)

\* C8 witness: a fetch that failed after three sleeps of 1, 2 and 4 seconds
C8_Witness ==
    /\ Ended
    /\ AllTransient(attemptLog)
    /\ Len(sleepLog) = 3
    /\ sleepLog[3].base = 4

(***************************************************************************)
(* Properties of the shared session (checked under SpecSession)            *)
(***************************************************************************)
Sessions == 1..nCreated
OpenSessions == {x \in Sessions : x \notin closedSet}

\* the step in which caller c runs the body of get_session
BodyStep(c) == apc[c] = "locked" /\ apc'[c] = "done"
\* no cleanup() has been called yet
NoShutdownYet == \A q \in Closers : spc[q] = "idle"

\* C9: as long as no cleanup() has been called, callers racing on get_session()
\* construct one session in all and each receives it, open; and a
\* get_session() that finds an open session constructs nothing and returns it.
C9_SingleConstruction ==
    /\ [](NoShutdownYet
            => /\ nCreated <= 1
               /\ \A c \in Callers :
                     got[c] # None
                        => got[c] = 1 /\ got[c] = session /\ got[c] \notin closedSet)
    /\ [][\A c \in Callers :
            BodyStep(c) =>
               IF IsOpen(session, closedSet)
               THEN nCreated' = nCreated /\ session' = session /\ got'[c] = session
               ELSE nCreated' = nCreated + 1 /\ got'[c] = session'
                    /\ got'[c] \notin Sessions /\ got'[c] \notin closedSet]_vars

\* C9 witness: every caller called get_session() while no session existed,
\* one session was constructed and every caller received it
C9_Witness ==
    /\ NoShutdownYet
    /\ nCreated = 1
    /\ \A c \in Callers : calledWhenAbsent[c] /\ apc[c] = "done" /\ got[c] = 1

\* C10: in every reachable state every open session is the one the session
\* variable refers to (so at most one is open and none is left unreferenced).
C10_OneOpenSessionReferenced ==
    \A x \in OpenSessions : x = session

\* the step in which closer q calls cleanup()
CleanupCallStep(q) == spc[q] = "idle" /\ spc'[q] # "idle"
\* the calls of close() made by closer q
ClosesBy(q) == {i \in 1..Len(closeLog) : closeLog[i].by = q}

\* C11: a cleanup() called when no session exists or when the session is
\* already closed (also after an earlier cleanup()) calls close() on nothing,
\* ends at once and leaves the session state as it is; a cleanup() called with
\* an open session calls close() on that session, once in the whole call.
C11_ShutdownIdempotent ==
    /\ [][\A q \in Closers :
            CleanupCallStep(q) =>
               IF session # None /\ session \notin closedSet
               THEN /\ closeLog' = Append(closeLog, [by |-> q, s |-> session])
                    /\ spc'[q] = "closing"
                    /\ UNCHANGED <<session, nCreated>>
               ELSE /\ spc'[q] = "done"
                    /\ UNCHANGED <<session, closedSet, nCreated, closeLog>>]_vars
    /\ [](\A q \in Closers : Cardinality(ClosesBy(q)) <= 1)
    /\ [][\A q \in Closers : ~CleanupCallStep(q) => ClosesBy(q)' = ClosesBy(q)]_vars

\* C11 witness: all cleanup() calls have ended, one of them closed the one
\* session that was constructed, the others found nothing to close
C11_Witness ==
    /\ \A q \in Closers : spc[q] = "done"
    /\ nCreated = 1
    /\ Len(closeLog) = 1
    /\ closedSet = {1}
    /\ session = None

\* the sessions some cleanup() is closing at the moment
BeingClosed == {closing[q] : q \in {r \in Closers : spc[r] = "closing"}}

\* C12: no session has close() called on it twice, also when cleanup() calls
\* overlap; every session that is open can still be torn down (the session
\* variable refers to it or a cleanup() is closing it); and outside a
\* cleanup() the session variable never refers to a closed session, so the
\* get_session() after a completed cleanup() hands out a new, open one.
C12_EachSessionTornDownOnce ==
    /\ \A i, j \in 1..Len(closeLog) : i # j => closeLog[i].s # closeLog[j].s
    /\ \A x \in OpenSessions : x = session \/ x \in BeingClosed
    /\ (BeingClosed = {} /\ session # None) => session \notin closedSet
    /\ \A c \in Callers : got[c] # None => got[c] \in Sessions

(***************************************************************************)
(* Properties of the batch (checked under Spec)                            *)
(***************************************************************************)
InFlight == {t \in Targets : tpc[t] = "fetch"}
\* The batch call is over: it returned, raised or was cancelled.
BatchEnded == bpc \in {"returned", "raised", "cancelled"}
\* the targets whose fetch has ended in failure: the last attempt of the
\* finished task failed (retries exhausted, or an exception of another class)
FailedTargets ==
    {t \in Targets : tpc[t] = "done" /\ lastOutcome[t].kind \in Retryable \cup OtherKinds}

\* C1: whenever the batch call returns, its data has one entry per configured
\* target and the entry at position i carries id i and the address configured
\* at position i, whatever the order in which the tasks completed.
C1_OrderedResults ==
    bpc = "returned"
       => /\ Len(content) = NumUrls
          /\ \A i \in Targets : content[i + 1].id = i /\ content[i + 1].url = urls[i]

\* C1 witness: the call returned although the last target completed first
C1_Witness ==
    /\ bpc = "returned"
    /\ Len(doneOrder) = NumUrls
    /\ doneOrder[1] = NumUrls - 1
    /\ content[1].id = 0

\* C2: once the fetch of a target has failed, the batch call does not raise,
\* and when it returns it returns one ordered entry per target: a failed
\* target's entry has an absent count and a present error, every other entry
\* has the count of that target's own fetched text.
C2_FailureIsolated ==
    FailedTargets # {}
       => /\ bpc # "raised"
          /\ bpc = "returned"
                => /\ Len(content) = NumUrls
                   /\ \A t \in Targets :
                         /\ content[t + 1].id = t
                         /\ IF t \in FailedTargets
                            THEN /\ ~content[t + 1].result.present
                                 /\ content[t + 1].error # NoError
                            ELSE content[t + 1].result
                                    = Some(search_tag(Str(lastOutcome[t].text)))

\* C3: every result record a task produced carries a count or an error
\* marker, whatever the count of the fetched text (0 included).
C3_CountOrError ==
    \A t \in Targets :
       (tpc[t] = "done" /\ ~ret[t].raised)
          => (ret[t].item.result.present \/ ret[t].item.error # NoError)

\* C4: at every moment of a batch the number of targets holding a semaphore
\* slot (fetch in flight, backoff sleeps included) is at most the size the
\* semaphore was built with.
C4_InFlightBounded ==
    Cardinality(InFlight) <= semSize

\* C4 witness: the limiter is saturated by a target sitting in a backoff
\* sleep while another target waits for a slot
C4_Witness ==
    /\ semSize >= 1
    /\ Cardinality(InFlight) = semSize
    /\ \E t \in InFlight : tf[t].pc = "sleep"
    /\ \E t \in Targets : tpc[t] = "new"

\* the largest value get_tags can give its semaphore: the 30 of min(cpu_count * 3, 30)
SemaphoreCap == 30

\* C18: the semaphore of a batch call is built with min(len(urls), c) slots
\* for a ceiling c that is at least 1 and at most the cap: it never has more
\* slots than there are targets.
C18_LimiterSizedByTargets ==
    semSize > 0 => \E c \in 1..SemaphoreCap : semSize = Min(NumUrls, c)

\* C19: no target waits for a semaphore slot while a target holding a slot
\* sits in a backoff sleep.
C19_NoWaitBehindBackoff ==
    \A t \in Targets :
       (tpc[t] = "new" /\ ~(sem > 0)) => \A u \in InFlight : tf[u].pc # "sleep"

\* C20: when the batch call is cancelled while it awaits its tasks, the
\* CancelledError leaves the call, every task that was not done is ended at
\* once with no further attempt or sleep and with its slot given back, and
\* the cleanup() that follows closes the session the tasks shared.
C20_CancellationAbandonsWork ==
    /\ [](bpc = "cancelled"
            => /\ batchError = Propagated("CancelledError")
               /\ \A t \in Targets : tpc[t] \in {"done", "cancelled"} /\ tf[t] = NoFetch
               /\ sem = semSize)
    /\ [][(bpc = "gather" /\ bpc' = "cancelled")
            => UNCHANGED <<lastOutcome, doneOrder, ret>>]_vars
    /\ []((bpc = "cancelled" /\ spc[1] = "done")
            => /\ session = None
               /\ OpenSessions = {}
               /\ nCreated >= 1 => Len(closeLog) = 1 /\ closeLog[1].s = 1)

\* C20 witness: the call was cancelled while a target sat between a failed
\* attempt and its retry and another had not finished either, and the
\* cleanup() after it has closed the session
C20_Witness ==
    /\ bpc = "cancelled"
    /\ \E t \in Targets : tpc[t] = "cancelled" /\ lastOutcome[t].kind \in Retryable
    /\ \A t \in Targets : tpc[t] = "cancelled"
    /\ spc[1] = "done"
    /\ closedSet = {1}

\* C21: no task's retry loop goes past max_retries failed attempts (so at
\* most max_retries + 1 attempts and max_retries sleeps), and a batch call
\* that ends without having been cancelled ends by returning one result per
\* configured target.
C21_BoundedAndComplete ==
    /\ \A t \in Targets :
          tpc[t] = "fetch" =>
             /\ tf[t].retries <= tf[t].max_retries
             /\ tf[t].attempt <= tf[t].max_retries
             /\ tf[t].pc = "sleep" =>
                   (IF bimpl = "helpers" THEN tf[t].retries ELSE tf[t].attempt + 1)
                      <= tf[t].max_retries
    /\ bpc \in {"returned", "raised"} => bpc = "returned" /\ Len(content) = NumUrls

\* C31: whatever CPU count the host reports (1, several, many, or none), the
\* semaphore of get_tags has between 1 and 30 slots, a task that finds no
\* free slot waits behind a task that holds one (never behind nothing), and
\* a get_tags call that ends without having been cancelled returns one result
\* per configured target.
C31_GetTagsLimiterInRange ==
    (bimpl = "helpers" /\ bpc # "start")
       => /\ semSize >= 1
          /\ semSize <= SemaphoreCap
          /\ semSize \in {get_tags_semaphore(cpu) : cpu \in CpuCounts}
          /\ \A t \in Targets :
                (bpc = "gather" /\ tpc[t] = "new") => (sem > 0 \/ InFlight # {})
          /\ bpc \in {"returned", "raised"}
                => bpc = "returned" /\ Len(content) = NumUrls

\* get_tags has returned all its results under the capped limiter of a host
\* with many CPUs, a target having failed
C31_Witness ==
    /\ bimpl = "helpers"
    /\ semSize = SemaphoreCap
    /\ bpc = "returned"
    /\ Len(content) = NumUrls
    /\ FailedTargets # {}

\* the tasks holding a slot of the semaphore
SlotHolders == InFlight

\* the part of C32 that speaks of every state: free slots plus slot holders
\* make up the size of the semaphore, and a task that has ended (done or
\* cancelled) holds no slot
SlotsConserved ==
    /\ sem + Cardinality(SlotHolders) = semSize
    /\ sem >= 0
    /\ \A t \in Targets : tpc[t] \in {"done", "cancelled"} => t \notin SlotHolders

\* C32: semaphore slots are conserved: in every state the free slots plus
\* the tasks holding a slot make up the size of the semaphore, every task
\* gives its slot back on each way out (success, caught error,
\* cancellation), and when the batch call has finished all slots are free.
C32_SlotsConservedAndFreed ==
    /\ SlotsConserved
    /\ BatchEnded => sem = semSize

\* C29: the single-target pipeline (results / count_tags) propagates a fetch
\* failure: for every target whose fetch failed, the pipeline raised (which
\* get_tags' process_url records as an error marker) and yielded no count.
C29_PipelinePropagatesFailure ==
    \A t \in FailedTargets :
       IF bimpl = "helpers"
       THEN ret[t].item.error # NoError /\ ~ret[t].item.result.present
       ELSE ret[t].raised

\* The lifespan's cleanup() has not been called yet.
BeforeShutdown == spc[1] = "idle"

\* C24: the batch call does not own the shared session.  No step of get_tags /
\* analyze_all_urls or of its tasks closes a session or replaces an open one:
\* a session that was open when the call began is still the shared, open
\* session when the call has ended, whether its targets succeeded or failed,
\* and a session the call's first results() constructed stays open too.  A
\* session becomes closed only inside cleanup(), after the awaited close().
C24_SessionLeftOpen ==
    /\ []((BatchEnded /\ BeforeShutdown)
            => /\ hadSession => session = 1 /\ nCreated = 1
               /\ session # None => session \notin closedSet /\ session = nCreated
               /\ (\E t \in Targets : tpc[t] = "done") => session # None)
    /\ [][BeforeShutdown'
            => /\ closedSet' = closedSet
               /\ session # None => session' = session]_vars
    /\ [][closedSet' # closedSet => spc[1] = "closing" /\ closedSet' = closedSet \cup {closing[1]}]_vars

\* a batch with a failed target has ended, the session that was open before
\* the call is still the open shared session and cleanup() has not run
C24_Witness ==
    /\ bpc \in {"returned", "raised"}
    /\ FailedTargets # {}
    /\ hadSession
    /\ session = 1
    /\ session \notin closedSet
    /\ BeforeShutdown

\* C30: over one application lifetime FastAPICache.init has run exactly once
\* before any request is served and never runs again; cleanup() is called
\* only after serving has ended, no request is served from then on, cleanup()
\* is not called a second time, and when lifespan() ends cleanup() has run to
\* its end, also when no session was ever constructed.
C30_InitOnceCleanupOnce ==
    /\ [](cacheInits <= 1)
    /\ []((bpc # "start" \/ lpc # "startup") => cacheInits = 1)
    /\ [][CleanupCallStep(1) => lpc = "shutdown"]_vars
    /\ [][spc[1] # "idle" => spc'[1] # "idle"]_vars
    /\ [][(lpc \in {"shutdown", "exited"}) => UNCHANGED <<bpc, cacheInits>>]_vars
    /\ [](lpc = "exited"
            => /\ spc[1] = "done"
               /\ Len(closeLog) <= 1
               /\ nCreated = 0 => closeLog = <<>> /\ session = None)

\* the application has stopped without a session ever having been
\* constructed: the cache was initialised once and cleanup() ran once
C30_Witness ==
    /\ lpc = "exited"
    /\ nCreated = 0
    /\ cacheInits = 1
    /\ spc[1] = "done"
    /\ closeLog = <<>>

(***************************************************************************)
(* Properties of get_tag, results and the caches (checked under SpecTag)   *)
(***************************************************************************)
\* the last call came within one CACHE_TTL of the network giving the body of
\* its address
WithinTtl == call.prev.any /\ call.at <= call.prev.at + CACHE_TTL
\* the last call came after that time had passed
AfterTtl == call.prev.any /\ call.at > call.prev.at + CACHE_TTL

\* C13: a call for an address made within one CACHE_TTL of the network giving
\* its body triggers no network fetch; and a get_tag request repeated within
\* the expire time of its cached response does not run the handler again.
C13_AtMostOneFetchPerWindow ==
    /\ WithinTtl => call.fetches = 0
    /\ (call.op = "get_tag" /\ call.prev_resp.any
          /\ call.at <= call.prev_resp.at + GetTagExpire)
         => ~call.handler /\ call.fetches = 0

\* C14: a call for an address made once CACHE_TTL has passed since the network
\* gave its body triggers one network fetch, and when that fetch gives a body
\* the body is stored with a window of CACHE_TTL that starts at the call.
C14_RefetchAfterExpiry ==
    (AfterTtl /\ call.outcome # "StorageError") =>
       /\ call.fetches = 1
       /\ call.outcome = "ok" =>
             httpCache[call.id] = [present |-> TRUE, fetched_at |-> call.at,
                                   expires_at |-> call.at + CACHE_TTL]

\* C15: every cache entry expires CACHE_TTL after it was made, and no answer
\* is computed from a body the network gave more than CACHE_TTL before the
\* call.
C15_NothingOlderThanTtl ==
    /\ \A k \in CacheKeys :
          httpCache[k].present =>
             httpCache[k].expires_at = httpCache[k].fetched_at + CACHE_TTL
    /\ \A k \in CacheKeys :
          respCache[k].present =>
             respCache[k].expires_at = respCache[k].stored_at + CACHE_TTL
    /\ (call.op # "none" /\ call.status = 200) => call.at <= call.body_at + CACHE_TTL

\* C16: get_tag(url_id) with url_id outside 0..len(urls)-1 answers with an
\* out-of-range error, fetches nothing and returns no target; with url_id
\* inside that range it is not rejected as out of range and the item it
\* returns carries url_id and the address configured at that position.
C16_IdRangeChecked ==
    call.op = "get_tag" =>
       IF call.id >= 0 /\ call.id < nUrls
       THEN /\ call.status \notin {400, 422}
            /\ call.has_item => call.item_id = call.id /\ call.item_url = <<"url", call.id>>
       ELSE /\ call.status \in {400, 422}
            /\ call.fetches = 0
            /\ ~call.has_item

\* C17: when the fetch made for get_tag(url_id) ends in a ClientError after
\* its retries, get_tag returns an item for that target and no exception
\* leaves it.
C17_FetchFailureReported ==
    (call.op = "get_tag" /\ call.outcome = "ClientError")
       => /\ call.has_item
          /\ call.item_id = call.id
          /\ call.error = NoError

\* C22: when the storage of the cache fails during a call, the call goes to
\* the network as on a miss and returns that body, and no error reaches the
\* caller.
C22_StorageFailureIsAMiss ==
    call.outcome = "StorageError"
       => /\ call.fetches = 1
          /\ call.status = 200
          /\ call.body_at = call.at
          /\ call.error = NoError

\* C23: whichever backend is configured, the same results(url) calls go to
\* the network: a call that ran results (the storage working) triggers as
\* many network fetches as it would with the other backend after the same
\* calls.
C23_BackendsAgree ==
    (call.op # "none" /\ call.handler /\ call.status # 400
        /\ call.outcome # "StorageError")
       => call.fetches = call.twin_fetches

(***************************************************************************)
(* Properties of the count (checked under SpecCount)                       *)
(***************************************************************************)
Called == cpc \in {"returned", "repeated"}
\* the positions of the elements of a text the pattern matches
MatchedAt(text) == {i \in 1..Len(text) : PatternMatches(text[i])}
RECURSIVE SumOfWords(_, _)
\* the sum, over the positions in S, of the number of words of the inner text
SumOfWords(text, S) ==
    IF S = {} THEN 0
    ELSE LET i == CHOOSE j \in S : TRUE
         IN  SplitLen(text[i].inner) + SumOfWords(text, S \ {i})
\* the argument is the text made of exactly these elements
TextIs(elems) == cdata = Str(elems)

\* C25: the value a count call returns is the sum, over the matches of the
\* pattern in the text, of the number of whitespace-delimited words of the
\* captured group: a match with w words adds w, not 1, and a match with an
\* empty captured group adds 0.
C25_CountSumsWords ==
    Called =>
       /\ cret = SumOfWords(cdata.text, MatchedAt(cdata.text))
       /\ \A w \in 1..3 : TextIs(<<Anchor("http", w)>>) => cret = w
       /\ TextIs(<<Link(Url("https", "h"), EmptyText)>>) => cret = 0

\* a text with two matches, one of three words and one with an empty group
C25_Witness ==
    /\ Called
    /\ TextIs(<<Link(Url("http", "x"), Words(3)), Link(Url("https", "h"), EmptyText)>>)
    /\ cret = 3

\* C26 as stated: with the default pattern one anchor with address 'x' and
\* two words counts 2, and two anchors with addresses 'x' and 'y' and three
\* and two words count 5.
C26_ExamplesAsStated ==
    Called =>
       /\ TextIs(<<Link(<<"x">>, Words(2))>>) => cret = 2
       /\ TextIs(<<Link(<<"x">>, Words(3)), Link(<<"y">>, Words(2))>>) => cret = 5

\* C26, amended: the examples count 2 and 5 when the addresses are
\* 'http://x' and 'http://y'; with the addresses 'x' and 'y' both count 0.
C26_ExamplesWithScheme ==
    Called =>
       /\ TextIs(<<Link(Url("http", "x"), Words(2))>>) => cret = 2
       /\ TextIs(<<Link(Url("http", "x"), Words(3)), Link(Url("http", "y"), Words(2))>>)
             => cret = 5
       /\ TextIs(<<Link(<<"x">>, Words(2))>>) => cret = 0
       /\ TextIs(<<Link(<<"x">>, Words(3)), Link(<<"y">>, Words(2))>>) => cret = 0

\* the two-anchor example with http addresses has been counted
C26_Witness ==
    /\ Called
    /\ TextIs(<<Link(Url("http", "x"), Words(3)), Link(Url("http", "y"), Words(2))>>)
    /\ cret = 5

\* the element is an anchor whose href attribute begins with http:// or
\* https:// (in any letter case)
HasHttpAddress(el) ==
    /\ Lower(el.tag) = "a"
    /\ \E i \in 1..Len(el.attrs) :
          /\ el.attrs[i].name \in {<<"href">>, <<"HREF">>}
          /\ Len(el.attrs[i].value) >= 2
          /\ Lower(el.attrs[i].value[1]) \in {"http", "https"}
          /\ el.attrs[i].value[2] = "://"

\* C27: with the default pattern only anchors whose address attribute begins
\* with http:// or https:// are matched: a text of one anchor with a relative
\* or other-scheme address counts 0, whatever its inner text.
C27_OnlyHttpAddressesCount ==
    Called =>
       \A el \in Elements :
          (TextIs(<<el>>) /\ ~HasHttpAddress(el)) => cret = 0

RECURSIVE FetchesOf(_)
\* the fetches in flight in the requests of the set S
FetchesOf(S) ==
    IF S = {} THEN 0
    ELSE LET c == CHOOSE x \in S : TRUE IN lim[c].fetch + FetchesOf(S \ {c})

\* C33: at every moment the number of fetches in flight in the process, all
\* get_tags and get_tag requests that run concurrently taken together, is at
\* most the configured limit: the size get_tags gives its semaphore.
C33_ProcessWideBound ==
    FetchesOf(Requests) <= get_tags_semaphore(lcpu)

(***************************************************************************)
(* Properties of repeated get_tags requests (checked under SpecAll)        *)
(***************************************************************************)
\* C34: a target's failure is never cached: when a target's fetch failed in
\* one get_tags request, the next request fetches that target anew, also
\* within the TTL window, and does not replay the stored failure.
C34_FailureNotCached ==
    (allCall.any /\ allCall.prev_any)
       => \A k \in allCall.prev_failed :
             /\ allCall.handler
             /\ allCall.fetches[k] = 1

(***************************************************************************)
(* Properties of the two retry loops side by side (checked under SpecEquiv)*)
(***************************************************************************)
\* the two runs made the same attempts and slept the same delays
SameSteps ==
    eq.pc = "ran"
       => /\ eq.fetch.attempts = eq.get_content.attempts
          /\ eq.fetch.sleeps = eq.get_content.sleeps

\* C35: for every sequence of attempt outcomes and every max_retries, fetch
\* and get_content make the same number of attempts, sleep the same
\* jitter-free delays in the same order, and end the same way: both return
\* a text or both raise.
C35_StepEquivalent ==
    /\ SameSteps
    /\ eq.pc = "ran" => eq.fetch.pc = eq.get_content.pc

====
